---------------------------- MODULE Spec2Model ----------------------------
(***************************************************************************)
(* The Ship stability model of src/ship.py as a state machine.             *)
(*                                                                         *)
(* The state is one Ship object (the record `ship`, one field per          *)
(* attribute of the Python object) plus history variables that record the  *)
(* calls made so far, the object before the last call and the value the    *)
(* last call returned.  Every method of Ship that the properties below     *)
(* talk about is an operator from the object (and the arguments) to the    *)
(* object after the call and the returned value; every action applies one  *)
(* method, whole.                                                          *)
(*                                                                         *)
(* Numbers.  Python floats are modelled by exact rationals <<n, d>> in     *)
(* lowest terms, d > 0.  The transcendental functions of numpy (sin, cos,  *)
(* arctan, log10) are computed in fixed point and are stated where they    *)
(* are defined.  The float specials numpy produces instead of raising      *)
(* (log10(0) = -inf, x / inf = 0, x / 0 = inf) are the pairs with a zero   *)
(* denominator: <<1, 0>> is inf, <<-1, 0>> is -inf and <<0, 0>> is nan.    *)
(***************************************************************************)
EXTENDS Integers, Sequences, FiniteSets, TLC

VARIABLES ship, prev, hist, ret, lightship, added, curve

vars == <<ship, prev, hist, ret, lightship, added, curve>>

---------------------------------------------------------------------------
(* Bounds of the model. *)

\* Number of method calls made on one Ship object.
MaxOps == 3

---------------------------------------------------------------------------
(* Rational arithmetic: the float operators +, -, *, / of the source. *)

Abs(x) == IF x < 0 THEN -x ELSE x

RECURSIVE Gcd(_, _)
Gcd(a, b) == IF b = 0 THEN a ELSE Gcd(b, a % b)

\* The rational n/d in lowest terms with a positive denominator (d # 0).
Norm(n, d) ==
    LET g == Gcd(Abs(n), Abs(d))
        s == IF d < 0 THEN -1 ELSE 1
    IN  <<s * (n \div g), s * (d \div g)>>

R(n) == <<n, 1>>

RMul(a, b) ==
    LET x == Norm(a[1], b[2])
        y == Norm(b[1], a[2])
    IN  Norm(x[1] * y[1], x[2] * y[2])

RDiv(a, b) == RMul(a, Norm(b[2], b[1]))

RAdd(a, b) ==
    LET g == Gcd(a[2], b[2])
        l == (a[2] \div g) * b[2]
    IN  Norm(a[1] * (l \div a[2]) + b[1] * (l \div b[2]), l)

RNeg(a) == <<-a[1], a[2]>>

RSub(a, b) == RAdd(a, RNeg(b))

RLt(a, b) == a[1] * b[2] < b[1] * a[2]

RLe(a, b) == a[1] * b[2] <= b[1] * a[2]

RZero == R(0)

\* An attribute that has not been assigned yet.
Unset == <<>>

---------------------------------------------------------------------------
(* Constants of the source. *)

\* self.rho_water = 1025
rho_water == 1025

\* self.gravity = 9.81
gravity == Norm(981, 100)

---------------------------------------------------------------------------
(* Ship.calculate_hydrostatics *)

\* calculate_hydrostatics as section 4.1 of the specification words it:
\* KG is left as the loading path set it.
calculate_hydrostatics_KeepKG(s) ==
    LET volume_displaced == RDiv(s.displacement, R(rho_water))
        buoyancy_force == RMul(RMul(R(rho_water), gravity), volume_displaced)
        waterplane_moment_inertia ==
            RDiv(RMul(RMul(RMul(s.beam, s.beam), s.beam), s.length), R(12))
        KB == RDiv(RMul(s.block_coefficient, s.draft), R(3))
        BM == RDiv(waterplane_moment_inertia, volume_displaced)
        BML == RDiv(RMul(s.length, s.length), RMul(R(12), volume_displaced))
    IN  [s EXCEPT !.volume_displaced = volume_displaced,
                  !.buoyancy_force = buoyancy_force,
                  !.waterplane_area =
                      RMul(RMul(s.length, s.beam), s.water_plane_area_coefficient),
                  !.waterplane_moment_inertia = waterplane_moment_inertia,
                  !.KB = KB,
                  !.BM = BM,
                  !.GM = RSub(RAdd(KB, BM), s.KG),
                  !.KMT = BM,
                  !.BML = BML,
                  !.GML = RSub(RAdd(KB, BML), s.KG)]

calculate_hydrostatics(s) ==
    LET volume_displaced == RDiv(s.displacement, R(rho_water))
        buoyancy_force == RMul(RMul(R(rho_water), gravity), volume_displaced)
        waterplane_area ==
            RMul(RMul(s.length, s.beam), s.water_plane_area_coefficient)
        waterplane_moment_inertia ==
            RDiv(RMul(RMul(RMul(s.beam, s.beam), s.beam), s.length), R(12))
        KB == RDiv(RMul(s.block_coefficient, s.draft), R(3))
        KG == RDiv(s.draft, R(2))
        BM == RDiv(waterplane_moment_inertia, volume_displaced)
        GM == RSub(RAdd(KB, BM), KG)
        BML == RDiv(RMul(s.length, s.length), RMul(R(12), volume_displaced))
        GML == RSub(RAdd(KB, BML), KG)
    IN  [s EXCEPT !.volume_displaced = volume_displaced,
                  !.buoyancy_force = buoyancy_force,
                  !.waterplane_area = waterplane_area,
                  !.waterplane_moment_inertia = waterplane_moment_inertia,
                  !.KB = KB,
                  !.KG = KG,
                  !.BM = BM,
                  !.GM = GM,
                  !.KMT = BM,
                  !.BML = BML,
                  !.GML = GML]

---------------------------------------------------------------------------
(* Ship.__init__ *)

ShipInit(length, beam, draft, displacement, block_coefficient, water_plane_area_coefficient, prismatic_coefficient, hull_form_factor) ==
    calculate_hydrostatics(
        [length |-> length,
         beam |-> beam,
         draft |-> draft,
         displacement |-> displacement,
         block_coefficient |-> block_coefficient,
         water_plane_area_coefficient |-> water_plane_area_coefficient,
         prismatic_coefficient |-> prismatic_coefficient,
         hull_form_factor |-> hull_form_factor,
         KB |-> RZero, KG |-> RZero, GM |-> RZero, BM |-> RZero,
         KMT |-> RZero,
         hull_resistance |-> RZero,
         power_required |-> RZero,
         cargo_list |-> <<>>,
         ballast_tanks |-> <<>>,
         wave_height |-> RZero,
         wave_length |-> RZero,
         wave_period |-> RZero,
         time |-> RZero,
         volume_displaced |-> Unset,
         buoyancy_force |-> Unset,
         waterplane_area |-> Unset,
         waterplane_moment_inertia |-> Unset,
         BML |-> Unset,
         GML |-> Unset,
         LCG |-> Unset])

---------------------------------------------------------------------------
(* Ship.add_cargo, Ship.update_cargo_effects *)

\* sum([item['weight'] for item in items])
RECURSIVE SumWeights(_)
SumWeights(items) ==
    IF items = <<>> THEN RZero
    ELSE RAdd(Head(items).weight, SumWeights(Tail(items)))

\* sum([item['weight'] * item['vertical_position'] for item in items])
RECURSIVE SumVerticalMoments(_)
SumVerticalMoments(items) ==
    IF items = <<>> THEN RZero
    ELSE RAdd(RMul(Head(items).weight, Head(items).vertical_position),
              SumVerticalMoments(Tail(items)))

\* sum([item['weight'] * item['longitudinal_position'] for item in items])
RECURSIVE SumLongitudinalMoments(_)
SumLongitudinalMoments(items) ==
    IF items = <<>> THEN RZero
    ELSE RAdd(RMul(Head(items).weight, Head(items).longitudinal_position),
              SumLongitudinalMoments(Tail(items)))

\* update_cargo_effects without its closing calculate_hydrostatics().
update_cargo_effects_NoRecompute(s) ==
    LET total_weight == RAdd(s.displacement, SumWeights(s.cargo_list))
        total_vertical_moment ==
            RAdd(RMul(s.KG, s.displacement), SumVerticalMoments(s.cargo_list))
    IN  [s EXCEPT !.KG = RDiv(total_vertical_moment, total_weight),
                  !.displacement = total_weight,
                  !.LCG = RDiv(SumLongitudinalMoments(s.cargo_list), total_weight)]

update_cargo_effects(s) ==
    LET total_cargo_weight == SumWeights(s.cargo_list)
        total_cargo_vertical_moment ==
            SumVerticalMoments(s.cargo_list)
        total_cargo_longitudinal_moment ==
            SumLongitudinalMoments(s.cargo_list)
        total_weight == RAdd(s.displacement, total_cargo_weight)
        total_vertical_moment ==
            RAdd(RMul(s.KG, s.displacement), total_cargo_vertical_moment)
        total_longitudinal_moment == total_cargo_longitudinal_moment
    IN  calculate_hydrostatics(
            [s EXCEPT !.KG = RDiv(total_vertical_moment, total_weight),
                      !.displacement = total_weight,
                      !.LCG = RDiv(total_longitudinal_moment, total_weight)])

add_cargo(s, cargo_list) ==
    update_cargo_effects([s EXCEPT !.cargo_list = cargo_list])

---------------------------------------------------------------------------
(* Ship.add_ballast_tank, Ship.update_ballast_effects *)

\* update_ballast_effects without its closing calculate_hydrostatics().
update_ballast_effects_NoRecompute(s) ==
    LET total_weight == RAdd(s.displacement, SumWeights(s.ballast_tanks))
        total_moment ==
            RAdd(RMul(s.KG, s.displacement), SumVerticalMoments(s.ballast_tanks))
    IN  [s EXCEPT !.KG = RDiv(total_moment, total_weight),
                  !.displacement = total_weight]

update_ballast_effects(s) ==
    LET total_ballast_weight == SumWeights(s.ballast_tanks)
        total_ballast_moment ==
            SumVerticalMoments(s.ballast_tanks)
        total_weight == RAdd(s.displacement, total_ballast_weight)
        total_moment == RAdd(RMul(s.KG, s.displacement), total_ballast_moment)
    IN  calculate_hydrostatics(
            [s EXCEPT !.KG = RDiv(total_moment, total_weight),
                      !.displacement = total_weight])

add_ballast_tank(s, ballast_tank) ==
    update_ballast_effects(
        [s EXCEPT !.ballast_tanks = Append(@, ballast_tank)])

---------------------------------------------------------------------------
(* numpy: pi, radians, sin, cos, arctan in fixed point.                    *)
(* An angle or a ratio x is carried as the integer floor(x * Fix); the     *)
(* results are exact at 0 and keep the sign of the exact result.           *)

Fix == 10 ^ 4

\* np.pi
pi == Norm(355, 113)

\* floor(r * f / d) for 0 <= r < d and f a power of ten, by long division.
RECURSIVE LongDiv(_, _, _)
LongDiv(r, d, f) ==
    IF f = 1 THEN 0
    ELSE ((r * 10) \div d) * (f \div 10) + LongDiv((r * 10) % d, d, f \div 10)

\* floor(q * Fix)
ToFix(q) == (q[1] \div q[2]) * Fix + LongDiv(q[1] % q[2], q[2], Fix)

FromFix(x) == Norm(x, Fix)

\* a * b, to the nearest unit.
FixMul(a, b) == (a * b + (Fix \div 2)) \div Fix

PiFix == ToFix(pi)

\* x brought into [-pi, pi) by whole turns.
WrapFix(x) == ((x + PiFix) % (2 * PiFix)) - PiFix

\* sin on [-pi/2, pi/2]: the Taylor polynomial to x^9 in Horner form.
SinPoly(x) ==
    LET x2 == FixMul(x, x)
        t4 == Fix - (x2 \div 72)
        t3 == Fix - FixMul(x2 \div 42, t4)
        t2 == Fix - FixMul(x2 \div 20, t3)
        t1 == Fix - FixMul(x2 \div 6, t2)
        y == FixMul(Abs(x), t1)
        c == IF y > Fix THEN Fix ELSE y
    IN  IF x < 0 THEN -c ELSE c

SinFix(x) ==
    LET w == WrapFix(x)
        h == PiFix \div 2
    IN  IF w > h THEN SinPoly(PiFix - w)
        ELSE IF w < -h THEN SinPoly(-PiFix - w)
        ELSE SinPoly(w)

np_sin(q) == FromFix(SinFix(ToFix(q)))

np_cos(q) == FromFix(SinFix(ToFix(q) + (PiFix \div 2)))

np_radians(deg) == RMul(deg, RDiv(pi, R(180)))

\* arctan on [0, 1]: x / (1 + 0.28125 x^2), within 0.005 rad of arctan.
AtanUnit(x) == (x * Fix) \div (Fix + FixMul(FixMul(x, x), 2812))

AtanPos(x) ==
    IF x <= Fix THEN AtanUnit(x)
    ELSE (PiFix \div 2) - AtanUnit((Fix * Fix) \div x)

np_arctan(q) ==
    LET x == ToFix(q)
    IN  FromFix(IF x < 0 THEN -AtanPos(-x) ELSE AtanPos(x))

---------------------------------------------------------------------------
(* Ship.set_wave_parameters, Ship.update_time *)

set_wave_parameters(s, wave_height, wave_length, wave_period) ==
    [s EXCEPT !.wave_height = wave_height,
              !.wave_length = wave_length,
              !.wave_period = wave_period]

update_time(s, time) == [s EXCEPT !.time = time]

---------------------------------------------------------------------------
(* Ship.calculate_righting_arm: the object after the call and GZ. *)

\* The wave-induced heel angle, in radians.
WaveInducedHeel(s) ==
    IF RLt(RZero, s.wave_length) /\ RLt(RZero, s.wave_period)
    THEN LET k == RDiv(RMul(R(2), pi), s.wave_length)
             omega == RDiv(RMul(R(2), pi), s.wave_period)
             wave_slope ==
                 RMul(RMul(s.wave_height, k),
                      np_cos(RSub(RMul(k, R(0)), RMul(omega, s.time))))
         IN  np_arctan(wave_slope)
    ELSE RZero

\* calculate_righting_arm with cos written for sin.
calculate_righting_arm_Cos(s, heel_angle_deg) ==
    LET total_heel_angle_rad ==
            RAdd(np_radians(heel_angle_deg), WaveInducedHeel(s))
    IN  [self |-> s, result |-> RMul(s.GM, np_cos(total_heel_angle_rad))]

\* calculate_righting_arm that steps the object's time on every call.
calculate_righting_arm_StepsTime(s, heel_angle_deg) ==
    LET total_heel_angle_rad ==
            RAdd(np_radians(heel_angle_deg), WaveInducedHeel(s))
    IN  [self |-> [s EXCEPT !.time = RAdd(@, R(1))],
         result |-> RMul(s.GM, np_sin(total_heel_angle_rad))]

calculate_righting_arm(s, heel_angle_deg) ==
    LET heel_angle_rad == np_radians(heel_angle_deg)
        wave_induced_heel_angle_rad == WaveInducedHeel(s)
        total_heel_angle_rad ==
            RAdd(heel_angle_rad, wave_induced_heel_angle_rad)
        GZ == RMul(s.GM, np_sin(total_heel_angle_rad))
    IN  [self |-> s, result |-> GZ]

---------------------------------------------------------------------------
(* numpy float arithmetic with the specials, as calculate_resistance meets *)
(* it: np.log10 returns a numpy float, and numpy floats divide by zero and *)
(* by infinity without raising.                                            *)

Inf == <<1, 0>>
NegInf == <<-1, 0>>
NaN == <<0, 0>>

IsNum(a) == a[2] # 0

Sgn(n) == IF n < 0 THEN -1 ELSE IF n = 0 THEN 0 ELSE 1

FAdd(a, b) ==
    IF IsNum(a) /\ IsNum(b) THEN RAdd(a, b)
    ELSE IF a = NaN \/ b = NaN THEN NaN
    ELSE IF IsNum(a) THEN b
    ELSE IF IsNum(b) THEN a
    ELSE IF a = b THEN a ELSE NaN

FSub(a, b) == FAdd(a, <<-b[1], b[2]>>)

FMul(a, b) ==
    IF IsNum(a) /\ IsNum(b) THEN RMul(a, b)
    ELSE IF a = NaN \/ b = NaN \/ a[1] = 0 \/ b[1] = 0 THEN NaN
    ELSE <<Sgn(a[1]) * Sgn(b[1]), 0>>

FDiv(a, b) ==
    IF a = NaN \/ b = NaN THEN NaN
    ELSE IF IsNum(a) /\ IsNum(b)
         THEN IF b[1] # 0 THEN RDiv(a, b)
              ELSE IF a[1] = 0 THEN NaN ELSE <<Sgn(a[1]), 0>>
    ELSE IF IsNum(a) THEN RZero
    ELSE IF IsNum(b) THEN <<Sgn(a[1]) * (IF b[1] < 0 THEN -1 ELSE 1), 0>>
    ELSE NaN

\* The number of tenths in log10(m) for 1 <= m < 10: how many of
\* 10^0.1, ..., 10^0.9 are at most m.
Tenths(m) ==
    Cardinality({c \in {1259, 1585, 1995, 2512, 3162, 3981, 5012, 6310, 7943} :
                    RLe(Norm(c, 1000), m)})

\* log10(m * 10^e) for m > 0, down to a tenth.
RECURSIVE Log10Pos(_, _)
Log10Pos(m, e) ==
    IF RLe(R(10), m) THEN Log10Pos(RDiv(m, R(10)), e + 1)
    ELSE IF RLt(m, R(1)) THEN Log10Pos(RMul(m, R(10)), e - 1)
    ELSE RAdd(R(e), Norm(Tenths(m), 10))

\* np.log10 of the number x.m * 10^x.e: -inf at 0 and nan below.
np_log10(x) ==
    IF x.m[1] = 0 THEN NegInf
    ELSE IF x.m[1] < 0 THEN NaN
    ELSE Log10Pos(x.m, x.e)

---------------------------------------------------------------------------
(* Ship.calculate_resistance: the object after the call and the value      *)
(* returned.  The Reynolds number (1e8 and more) and the viscosity (1e-6)  *)
(* are carried as a mantissa and a power of ten.                           *)

calculate_resistance(s, ship_speed) ==
    LET kinematic_viscosity == [m |-> Norm(119, 100), e |-> -6]
        reynolds_number ==
            [m |-> RDiv(RMul(ship_speed, s.length), kinematic_viscosity.m),
             e |-> -kinematic_viscosity.e]
        d == FSub(np_log10(reynolds_number), R(2))
        cf == FDiv(Norm(75, 1000), FMul(d, d))
        wetted_surface_area ==
            RAdd(RMul(RMul(s.length, s.draft), R(2)), RMul(s.beam, s.length))
        frictional_resistance ==
            FMul(FMul(FMul(RMul(Norm(1, 2), R(rho_water)), wetted_surface_area),
                      cf),
                 RMul(ship_speed, ship_speed))
        residual_resistance == FMul(s.hull_form_factor, frictional_resistance)
        hull_resistance == FAdd(frictional_resistance, residual_resistance)
        power_required == FDiv(FMul(hull_resistance, ship_speed), R(1000))
    IN  [self |-> [s EXCEPT !.hull_resistance = hull_resistance,
                            !.power_required = power_required],
         result |-> hull_resistance]

---------------------------------------------------------------------------
(* The inputs of the calls: what the dashboard of src/app.py can hand to   *)
(* the model, cut to a few values of each.                                 *)

\* (length, beam, draft, displacement) of the sliders.
Hulls == {<<100, 20, 10, 20000>>, <<50, 10, 6, 5000>>}

CargoItem(w, v, l) ==
    [weight |-> R(w), vertical_position |-> R(v), longitudinal_position |-> R(l)]

\* The cargo lists handed to add_cargo.
CargoLists ==
    { <<CargoItem(500, 2, 30)>>,
      <<CargoItem(500, 5, 25)>>,
      <<CargoItem(1000, 1, 10), CargoItem(500, 4, 40)>>,
      <<CargoItem(0, 4, 20)>> }

Tank(w, v) == [weight |-> R(w), vertical_position |-> R(v)]

Tanks == {Tank(0, 1), Tank(500, 1), Tank(1000, 4)}

\* (wave_height, wave_length, wave_period)
Waves == {<<2, 100, 10>>, <<2, 0, 10>>, <<0, 100, 10>>}

Times == {0, 3}

HeelAngles == {0, 30, 90}

Speeds == {0, 5}

---------------------------------------------------------------------------
(* The state machine. *)

\* The value of a call that returns nothing.
None == <<>>

Returned(v) == [outcome |-> "return", value |-> v]

Call(op, arg) == [op |-> op, arg |-> arg]

Init ==
    \E h \in Hulls :
        /\ ship = ShipInit(R(h[1]), R(h[2]), R(h[3]), R(h[4]), Norm(7, 10),
                           Norm(85, 100), Norm(6, 10), Norm(105, 100))
        /\ prev = ship
        /\ hist = <<>>
        /\ ret = Returned(None)
        /\ lightship = R(h[4])
        /\ added = RZero
        /\ curve = {}

AddCargo ==
    \E cargo_list \in CargoLists :
        /\ Len(hist) < MaxOps
        /\ ship' = add_cargo(ship, cargo_list)
        /\ prev' = ship
        /\ hist' = Append(hist, Call("add_cargo", cargo_list))
        /\ ret' = Returned(None)
        /\ added' = RAdd(added, SumWeights(cargo_list))
        /\ curve' = {}
        /\ UNCHANGED lightship

AddBallastTank ==
    \E ballast_tank \in Tanks :
        /\ Len(hist) < MaxOps
        /\ ship' = add_ballast_tank(ship, ballast_tank)
        /\ prev' = ship
        /\ hist' = Append(hist, Call("add_ballast_tank", ballast_tank))
        /\ ret' = Returned(None)
        /\ added' = RAdd(added, ballast_tank.weight)
        /\ curve' = {}
        /\ UNCHANGED lightship

SetWaveParameters ==
    \E w \in Waves :
        /\ Len(hist) < MaxOps
        /\ ship' = set_wave_parameters(ship, R(w[1]), R(w[2]), R(w[3]))
        /\ prev' = ship
        /\ hist' = Append(hist, Call("set_wave_parameters", w))
        /\ ret' = Returned(None)
        /\ curve' = {}
        /\ UNCHANGED <<lightship, added>>

UpdateTime ==
    \E t \in Times :
        /\ Len(hist) < MaxOps
        /\ ship' = update_time(ship, R(t))
        /\ prev' = ship
        /\ hist' = Append(hist, Call("update_time", t))
        /\ ret' = Returned(None)
        /\ curve' = {}
        /\ UNCHANGED <<lightship, added>>

CalculateRightingArm ==
    \E heel_angle_deg \in HeelAngles :
        LET r == calculate_righting_arm(ship, R(heel_angle_deg))
        IN  /\ Len(hist) < MaxOps
            /\ ship' = r.self
            /\ prev' = ship
            /\ hist' = Append(hist, Call("calculate_righting_arm", heel_angle_deg))
            /\ ret' = Returned(r.result)
            /\ curve' = curve \cup {<<heel_angle_deg, r.result>>}
            /\ UNCHANGED <<lightship, added>>

CalculateResistance ==
    \E ship_speed \in Speeds :
        LET r == calculate_resistance(ship, R(ship_speed))
        IN  /\ Len(hist) < MaxOps
            /\ ship' = r.self
            /\ prev' = ship
            /\ hist' = Append(hist, Call("calculate_resistance", ship_speed))
            /\ ret' = Returned(r.result)
            /\ curve' = {}
            /\ UNCHANGED <<lightship, added>>

Next ==
    \/ AddCargo
    \/ AddBallastTank
    \/ SetWaveParameters
    \/ UpdateTime
    \/ CalculateRightingArm
    \/ CalculateResistance

Spec == Init /\ [][Next]_vars

\* The last call made, when one was.
Last == hist[Len(hist)]

Called(op) == hist # <<>> /\ Last.op = op

---------------------------------------------------------------------------
(* Properties. *)

\* The sums of add_cargo's argument, as the call computed them.
LastCargoWeight == SumWeights(Last.arg)
LastCargoMoment == SumVerticalMoments(Last.arg)

\* The KG that update_cargo_effects assigns before it recomputes the
\* hydrostatics: the weighted mean of the old KG and the cargo.
WeightedKG ==
    RDiv(RAdd(RMul(prev.KG, prev.displacement), LastCargoMoment),
         RAdd(prev.displacement, LastCargoWeight))

\* C1: the displacement is the lightship displacement given to the
\* constructor plus the sum of the weights of every cargo item and every
\* ballast tank added so far, each counted once.
C1_DisplacementIsLightshipPlusAdded ==
    ship.displacement = RAdd(lightship, added)

\* C2: when add_cargo returns, KG is (old KG * old displacement + the sum of
\* weight * vertical_position) / (old displacement + the sum of weight); the
\* hydrostatics recompute does not overwrite it.
C2_AddCargoSetsWeightedKG ==
    Called("add_cargo") => ship.KG = WeightedKG

\* C3: in every state the caller can observe no derived value is stale:
\* volume_displaced = displacement / rho_water, buoyancy_force = rho_water *
\* g * volume_displaced, BM = waterplane_moment_inertia / volume_displaced,
\* GM = KB + BM - KG and GML = KB + BML - KG, for the current displacement
\* and the current KG.
C3_NoStaleDerivedValue ==
    /\ ship.volume_displaced = RDiv(ship.displacement, R(rho_water))
    /\ ship.buoyancy_force =
           RMul(RMul(R(rho_water), gravity), ship.volume_displaced)
    /\ ship.BM = RDiv(ship.waterplane_moment_inertia, ship.volume_displaced)
    /\ ship.GM = RSub(RAdd(ship.KB, ship.BM), ship.KG)
    /\ ship.GML = RSub(RAdd(ship.KB, ship.BML), ship.KG)

\* C3's case: ballast of non-zero weight was just added to a ship that
\* already carries cargo of non-zero weight.
C3_Witness ==
    /\ Called("add_ballast_tank")
    /\ Last.arg.weight # RZero
    /\ SumWeights(ship.cargo_list) # RZero
    /\ ship.displacement # lightship

\* C4: add_cargo called twice in a row with the same cargo list leaves the
\* displacement and KG as they were after the first call.
C4_RepeatedAddCargoDoesNotDoubleCount ==
    ( /\ Len(hist) >= 2
      /\ hist[Len(hist)].op = "add_cargo"
      /\ hist[Len(hist) - 1].op = "add_cargo"
      /\ hist[Len(hist)].arg = hist[Len(hist) - 1].arg )
    => /\ ship.displacement = prev.displacement
       /\ ship.KG = prev.KG

\* C5: add_ballast_tank with a tank of weight 0 leaves the displacement and
\* KG unchanged, also when tanks of non-zero weight were added before.
C5_ZeroBallastChangesNothing ==
    (Called("add_ballast_tank") /\ Last.arg.weight = RZero)
    => /\ ship.displacement = prev.displacement
       /\ ship.KG = prev.KG

\* add_cargo was just called with one item of positive weight.
SingleCargoAdded ==
    /\ Called("add_cargo")
    /\ Len(Last.arg) = 1
    /\ RLt(RZero, Last.arg[1].weight)

\* C6, as claimed: add_cargo with one item of positive weight lowers GM when
\* the item is above the current KG and raises GM when it is below the
\* current KG.
C6_CargoMovesGMTowardsItem ==
    SingleCargoAdded
    => /\ RLt(prev.KG, Last.arg[1].vertical_position) => RLt(ship.GM, prev.GM)
       /\ RLt(Last.arg[1].vertical_position, prev.KG) => RLt(prev.GM, ship.GM)

\* C6, amended: add_cargo with one item of positive weight lowers GM, whether
\* the item is above or below the current KG.
C6_CargoLowersGM ==
    SingleCargoAdded => RLt(ship.GM, prev.GM)

\* C6's case: an item of positive weight was added below the current KG.
C6_Witness ==
    /\ SingleCargoAdded
    /\ RLt(Last.arg[1].vertical_position, prev.KG)
    /\ RLt(ship.GM, prev.GM)

\* No wave heel applies: the wave length or the wave period is not positive,
\* or the wave has no height.
NoWaveHeel(s) ==
    \/ ~ RLt(RZero, s.wave_length)
    \/ ~ RLt(RZero, s.wave_period)
    \/ s.wave_height = RZero

\* C7, as claimed: calculate_righting_arm(0) returns 0 in every state
\* reachable by add_cargo, add_ballast_tank, set_wave_parameters and
\* update_time.
C7_RightingArmAtZeroIsZero ==
    (Called("calculate_righting_arm") /\ Last.arg = 0) => ret.value = RZero

\* C7, amended: calculate_righting_arm(0) returns 0 in every reachable state
\* in which no wave heel applies (wave_length <= 0, or wave_period <= 0, or
\* wave_height = 0).
C7_RightingArmAtZeroIsZeroWithoutWave ==
    (Called("calculate_righting_arm") /\ Last.arg = 0 /\ NoWaveHeel(ship))
    => ret.value = RZero

\* C7's case: GZ(0) was asked of a loaded ship with a non-zero GM, with wave
\* length and period stored but no wave height.
C7_Witness ==
    /\ Called("calculate_righting_arm")
    /\ Last.arg = 0
    /\ ship.GM # RZero
    /\ ship.displacement # lightship
    /\ RLt(RZero, ship.wave_length)
    /\ ship.wave_height = RZero
    /\ ret.value = RZero

\* C8: calculate_resistance(0) ends in a failure; it returns neither 0 nor
\* NaN as an ordinary result and stores no hull_resistance or
\* power_required.
C8_ZeroSpeedFails ==
    (Called("calculate_resistance") /\ Last.arg = 0)
    => /\ ret.outcome = "raise"
       /\ ship.hull_resistance = prev.hull_resistance
       /\ ship.power_required = prev.power_required

\* C9: calculate_righting_arm is a pure query: the call leaves every field
\* of the object as it was, so each GZ returned since the object last
\* changed is the GZ a single call with that angle returns now.
C9_RightingArmIsPure ==
    /\ Called("calculate_righting_arm") => ship = prev
    /\ \A p \in curve : p[2] = calculate_righting_arm(ship, R(p[1])).result

\* C9's case: several angles were asked in a row of a ship in waves.
C9_Witness ==
    /\ Called("calculate_righting_arm")
    /\ Cardinality(curve) >= 2
    /\ ~ NoWaveHeel(ship)

===========================================================================
